---- MODULE Spec2Model ----
(***************************************************************************)
(* Model of fdlpy: the FDL codec (fdl_copy.py, fdl_paste.py) and the tree  *)
(* browser (tui_fdl_pro.py).  Text is a sequence of one-character strings. *)
(***************************************************************************)
EXTENDS Integers, Sequences, FiniteSets, TLC

\* ------------------------------------------------------------------------
\* Bounds of the model
\* ------------------------------------------------------------------------
MaxRecords == 2
MaxPieces == 2

\* ------------------------------------------------------------------------
\* Text primitives (Python str methods used by the codec)
\* ------------------------------------------------------------------------
FILE_MARKER == <<"$", "$", "F", "I", "L", "E">>

\* Characters str.strip() removes (those of the model's alphabet).
Whitespace == {" ", "\n", "\r", "\t"}

\* Line boundaries of str.splitlines() (those of the model's alphabet).
LineBreaks == {"\n", "\r"}

\* s[i:i+len(d)] == d
MatchAt(s, d, i) ==
    /\ i + Len(d) - 1 <= Len(s)
    /\ \A k \in 1..Len(d) : s[i + k - 1] = d[k]

\* s.startswith(p)
StartsWith(s, p) == MatchAt(s, p, 1)

\* p in s
Contains(s, p) == \E i \in 1..(Len(s) + 1) : MatchAt(s, p, i)

RECURSIVE SplitLinesAcc(_, _, _, _)
SplitLinesAcc(s, i, cur, acc) ==
    IF i > Len(s) THEN (IF cur = <<>> THEN acc ELSE Append(acc, cur))
    ELSE IF s[i] = "\r" /\ i < Len(s) /\ s[i + 1] = "\n"
         THEN SplitLinesAcc(s, i + 2, <<>>, Append(acc, cur))
    ELSE IF s[i] \in LineBreaks
         THEN SplitLinesAcc(s, i + 1, <<>>, Append(acc, cur))
    ELSE SplitLinesAcc(s, i + 1, Append(cur, s[i]), acc)

\* s.splitlines(): a final line break yields no empty last line.
SplitLines(s) == SplitLinesAcc(s, 1, <<>>, <<>>)

RECURSIVE Join(_, _)
\* sep.join(items)
Join(sep, items) ==
    IF items = <<>> THEN <<>>
    ELSE IF Len(items) = 1 THEN items[1]
    ELSE items[1] \o sep \o Join(sep, Tail(items))

RECURSIVE SplitAcc(_, _, _, _, _)
SplitAcc(s, d, i, cur, acc) ==
    IF i > Len(s) THEN Append(acc, cur)
    ELSE IF MatchAt(s, d, i)
         THEN SplitAcc(s, d, i + Len(d), <<>>, Append(acc, cur))
    ELSE SplitAcc(s, d, i + 1, Append(cur, s[i]), acc)

\* s.split(d): non-overlapping matches, left to right; always >= 1 item.
Split(s, d) == SplitAcc(s, d, 1, <<>>, <<>>)

RECURSIVE LStrip(_)
\* s.lstrip()
LStrip(s) ==
    IF s # <<>> /\ Head(s) \in Whitespace THEN LStrip(Tail(s)) ELSE s

RECURSIVE RStrip(_)
\* s.rstrip()
RStrip(s) ==
    IF s # <<>> /\ s[Len(s)] \in Whitespace
    THEN RStrip(SubSeq(s, 1, Len(s) - 1)) ELSE s

\* s.strip()
Strip(s) == RStrip(LStrip(s))

\* Index of the first "\n" of s, or 0.
FirstNewline(s) ==
    IF \E i \in 1..Len(s) : s[i] = "\n"
    THEN CHOOSE i \in 1..Len(s) :
            s[i] = "\n" /\ \A j \in 1..(i - 1) : s[j] # "\n"
    ELSE 0

\* path_part, content = part.split('\n', 1), with the ValueError fallback
\* (no newline: the whole part is the path and the content is empty).
SplitPathContent(part) ==
    LET n == FirstNewline(part) IN
    IF n = 0 THEN [path_part |-> part, content |-> <<>>]
    ELSE [path_part |-> SubSeq(part, 1, n - 1),
          content |-> SubSeq(part, n + 1, Len(part))]

\* ------------------------------------------------------------------------
\* Path primitives (os.path on a POSIX host) and the destination disk
\* ------------------------------------------------------------------------
\* os.path.join(a, b)
PathJoin(a, b) ==
    IF StartsWith(b, <<"/">>) THEN b
    ELSE IF a = <<>> \/ a[Len(a)] = "/" THEN a \o b
    ELSE a \o <<"/">> \o b

\* Index of the last "/" of p, or 0.
LastSlash(p) ==
    IF \E i \in 1..Len(p) : p[i] = "/"
    THEN CHOOSE i \in 1..Len(p) :
            p[i] = "/" /\ \A j \in (i + 1)..Len(p) : p[j] # "/"
    ELSE 0

RECURSIVE RStripSlash(_)
RStripSlash(p) ==
    IF p # <<>> /\ p[Len(p)] = "/"
    THEN RStripSlash(SubSeq(p, 1, Len(p) - 1)) ELSE p

\* os.path.dirname(p)
Dirname(p) ==
    LET head == SubSeq(p, 1, LastSlash(p)) IN
    IF RStripSlash(head) = <<>> THEN head ELSE RStripSlash(head)

\* The directories os.makedirs(p) has to find or create: p and its ancestors.
PathComponents(p) ==
    {SubSeq(p, 1, i - 1) : i \in {j \in 2..Len(p) : p[j] = "/"}} \cup {p}

\* "$$FILE <relative_path>", the header line both encoders append.
HeaderLine(relative_path) == FILE_MARKER \o <<" ">> \o relative_path

RECURSIVE FdlParts(_)
\* fdl_parts after the loop: header and content of each file, in order.
FdlParts(pairs) ==
    IF pairs = <<>> THEN <<>>
    ELSE <<HeaderLine(pairs[1].path), pairs[1].content>> \o FdlParts(Tail(pairs))

\* dir_to_fdl over the text files the walk yields: "\n".join(fdl_parts).
dir_to_fdl(pairs) == Join(<<"\n">>, FdlParts(pairs))

\* normalized_fdl = "\n".join(fdl_string.splitlines())
normalized_fdl(fdl_string) == Join(<<"\n">>, SplitLines(fdl_string))

\* A marker check that looks for the marker anywhere in the text.
HasMarkerAnywhere(normalized) == Contains(normalized, FILE_MARKER)

\* The guard of the ValueError: normalized_fdl.strip().startswith(FILE_MARKER)
HasMarker(normalized) == StartsWith(Strip(normalized), FILE_MARKER)

\* temp_fdl: a newline is put in front unless one is there already.
temp_fdl(normalized) ==
    IF StartsWith(normalized, <<"\n">>) THEN normalized
    ELSE <<"\n">> \o normalized

\* A record path taken without str.strip().
relative_path_unstripped(path_part) == path_part

\* relative_path = path_part.strip()
relative_path_of(path_part) == Strip(path_part)

\* parts = temp_fdl.split("\n$$FILE ")
SplitParts(normalized) ==
    Split(temp_fdl(normalized), <<"\n">> \o FILE_MARKER \o <<" ">>)

\* ------------------------------------------------------------------------
\* Inputs of the codec
\* ------------------------------------------------------------------------
target_dir == <<"t">>

\* Relative path of the i-th text file of the source directory.
SrcPath(i) ==
    IF i = 1 THEN <<"a">> ELSE <<"d", "/">> \o [k \in 1..(i - 1) |-> "b"]

Pieces == {<<"x">>, <<"\n">>, FILE_MARKER \o <<" ">>}

RECURSIVE TextsUpTo(_)
\* Texts made of at most n pieces.
TextsUpTo(n) ==
    IF n = 0 THEN {<<>>}
    ELSE LET shorter == TextsUpTo(n - 1) IN
         shorter \cup {t \o p : t \in shorter, p \in Pieces}

Contents == TextsUpTo(MaxPieces)

\* Files of a source directory: distinct well-formed paths, any content.
Sources ==
    UNION {[1..n -> Contents] : n \in 1..MaxRecords}

SourcePairs(cs) == [i \in 1..Len(cs) |-> [path |-> SrcPath(i), content |-> cs[i]]]

\* Hand-made clipboard texts: some lead text, then records whose path may be
\* blank.
Leads == {<<>>, <<" ">>, <<"\n">>, <<"\r">>, <<"x">>}
BlankPaths == {<<>>, <<" ">>}
HandContents == TextsUpTo(MaxPieces - 1)
HandRecords ==
    UNION {{r \in [1..n -> [path : BlankPaths \cup {SrcPath(i) : i \in 1..n},
                            content : HandContents]] :
              \A i \in 1..n : r[i].path \in BlankPaths \cup {SrcPath(i)}} :
           n \in 1..MaxRecords}

\* ------------------------------------------------------------------------
\* The scanned directory (tui_fdl_pro.py): names, ordering, exclusion
\* ------------------------------------------------------------------------
MaxEntries == 3
MaxFewEntries == 2

\* The letters of entry names, in code-point order.
AlphabetOrder == <<"A", "S", "a", "s">>

\* ord(c)
Ord(c) == CHOOSE i \in 1..Len(AlphabetOrder) : AlphabetOrder[i] = c

LowerChar(c) == IF c = "A" THEN "a" ELSE IF c = "S" THEN "s" ELSE c

\* s.lower()
Lower(s) == [i \in 1..Len(s) |-> LowerChar(s[i])]

RECURSIVE StrLess(_, _)
\* a < b for str
StrLess(a, b) ==
    IF b = <<>> THEN FALSE
    ELSE IF a = <<>> THEN TRUE
    ELSE IF a[1] = b[1] THEN StrLess(Tail(a), Tail(b))
    ELSE Ord(a[1]) < Ord(b[1])

RECURSIVE fnmatch(_, _)
\* fnmatch.fnmatch(name, pat) on a POSIX host, for patterns of letters, * and ?
fnmatch(name, pat) ==
    IF pat = <<>> THEN name = <<>>
    ELSE IF pat[1] = "*"
         THEN fnmatch(name, Tail(pat)) \/ (name # <<>> /\ fnmatch(Tail(name), pat))
    ELSE IF pat[1] = "?"
         THEN name # <<>> /\ fnmatch(Tail(name), Tail(pat))
    ELSE name # <<>> /\ name[1] = pat[1] /\ fnmatch(Tail(name), Tail(pat))

\* An exclusion test that ignores the depth.
is_excluded_any_depth(patterns, depth, name) ==
    \E i \in 1..Len(patterns) : fnmatch(name, patterns[i])

\* depth == 0 and any(fnmatch.fnmatch(entry.name, p) for p in exclude_patterns)
is_excluded(patterns, depth, name) ==
    depth = 0 /\ \E i \in 1..Len(patterns) : fnmatch(name, patterns[i])

RECURSIVE SetToSeq(_)
\* The numbers of a set in ascending order.
SetToSeq(S) ==
    IF S = {} THEN <<>>
    ELSE LET m == CHOOSE x \in S : \A y \in S : x <= y
         IN <<m>> \o SetToSeq(S \ {m})

RECURSIVE SumSeq(_)
SumSeq(seq) == IF seq = <<>> THEN 0 ELSE seq[1] + SumSeq(Tail(seq))

RECURSIVE MergeAll(_)
\* The union of a sequence of functions with disjoint domains.
MergeAll(fs) == IF fs = <<>> THEN <<>> ELSE fs[1] @@ MergeAll(Tail(fs))

\* The disk is a function from entry ids (0 is root_dir) to
\* [parent, name, type, listable, encodable, bytes]; an entry's id stands for
\* its path.
ROOT == 0

\* os.scandir(path): the entries of directory e, OSError (no list) if it
\* cannot be listed.
scandir(disk, e) == SetToSeq({c \in DOMAIN disk : c # ROOT /\ disk[c].parent = e})

\* key=lambda e: (e.is_file(), e.name.lower())
ScanKeyLess(disk, a, b) ==
    LET fa == disk[a].type = "file"
        fb == disk[b].type = "file"
    IN (~fa /\ fb) \/ (fa = fb /\ StrLess(Lower(disk[a].name), Lower(disk[b].name)))

\* sorted(os.scandir(path), key=...): a stable sort by the key of ScanKeyLess.
sorted_scandir(disk, e) ==
    LET seq == scandir(disk, e)
        n == Len(seq)
        Before(i, j) == \/ ScanKeyLess(disk, seq[i], seq[j])
                        \/ (~ScanKeyLess(disk, seq[j], seq[i]) /\ i < j)
        Rank(j) == 1 + Cardinality({i \in 1..n : i # j /\ Before(i, j)})
    IN [r \in 1..n |-> seq[CHOOSE j \in 1..n : Rank(j) = r]]

\* A file node whose selected flag stays True whatever the probe says.
file_node_always_selected(disk, e, depth) ==
    [name |-> disk[e].name, depth |-> depth, selected |-> TRUE,
     children |-> <<>>, type |-> "file", expanded |-> FALSE,
     size |-> disk[e].bytes,
     encodable_count |-> IF disk[e].encodable THEN 1 ELSE 0,
     encodable_size |-> IF disk[e].encodable THEN disk[e].bytes ELSE 0]

\* The node _build_tree makes of a file (the else branch).
file_node(disk, e, depth) ==
    [name |-> disk[e].name, depth |-> depth, selected |-> disk[e].encodable,
     children |-> <<>>, type |-> "file", expanded |-> FALSE,
     size |-> disk[e].bytes,
     encodable_count |-> IF disk[e].encodable THEN 1 ELSE 0,
     encodable_size |-> IF disk[e].encodable THEN disk[e].bytes ELSE 0]

RECURSIVE build_tree(_, _, _, _)
\* _build_tree(path, depth): [nodes, root, count, size], nodes being the
\* subtree's nodes by id.
build_tree(disk, patterns, e, depth) ==
    IF disk[e].type = "dir"
    THEN LET entries == IF disk[e].listable
                        THEN sorted_scandir(disk, e)
                        ELSE <<>>
             kept == SelectSeq(entries,
                        LAMBDA c : ~is_excluded(patterns, depth, disk[c].name))
             built == [i \in 1..Len(kept) |->
                          build_tree(disk, patterns, kept[i], depth + 1)]
             node == [name |-> disk[e].name, depth |-> depth, selected |-> TRUE,
                      children |-> kept, type |-> "dir", expanded |-> FALSE,
                      size |-> SumSeq([i \in 1..Len(kept) |->
                                          built[i].nodes[kept[i]].size]),
                      encodable_count |->
                          SumSeq([i \in 1..Len(kept) |-> built[i].count]),
                      encodable_size |->
                          SumSeq([i \in 1..Len(kept) |-> built[i].size])]
         IN [nodes |-> (e :> node) @@
                       MergeAll([i \in 1..Len(kept) |-> built[i].nodes]),
             count |-> node.encodable_count,
             size |-> node.encodable_size]
    ELSE LET node == file_node(disk, e, depth)
         IN [nodes |-> (e :> node),
             count |-> node.encodable_count,
             size |-> node.encodable_size]

RECURSIVE PreorderSeq(_, _)
RECURSIVE Preorder(_, _)
\* The nodes below and including n in the order _build_tree visits them and
\* _generate_fdl_string walks them.
Preorder(nodes, n) == <<n>> \o PreorderSeq(nodes, nodes[n].children)
PreorderSeq(nodes, cs) ==
    IF cs = <<>> THEN <<>>
    ELSE Preorder(nodes, cs[1]) \o PreorderSeq(nodes, Tail(cs))

RECURSIVE Walkable(_, _)
\* os.walk(root_dir) reaches entry e: every directory above it can be listed.
Walkable(disk, e) ==
    e = ROOT \/ (disk[disk[e].parent].listable /\ Walkable(disk, disk[e].parent))

\* total_files = sum(len(files) for _, _, files in os.walk(self.root_dir))
total_files(disk) ==
    Cardinality({e \in DOMAIN disk : disk[e].type = "file" /\ Walkable(disk, e)})

\* ------------------------------------------------------------------------
\* Selection engine, flattener and exporter (pure parts)
\* ------------------------------------------------------------------------
\* is_encodable(node["path"]): the probe of the file on disk.
is_encodable(disk, n) == disk[n].encodable

\* node["type"] == "dir" or is_encodable(node["path"])
is_selectable(nodes, disk, n) == nodes[n].type = "dir" \/ is_encodable(disk, n)

RECURSIVE calculate_selection_delta_deep(_, _, _, _)
\* A delta that also descends into directories already at target_state.
calculate_selection_delta_deep(nodes, disk, n, target_state) ==
    IF ~is_selectable(nodes, disk, n) THEN <<0, 0>>
    ELSE IF nodes[n].type = "file"
         THEN (IF nodes[n].selected = target_state THEN <<0, 0>>
               ELSE LET change == IF target_state THEN 1 ELSE -1
                    IN <<change, change * nodes[n].size>>)
    ELSE LET cs == nodes[n].children
             ds == [i \in 1..Len(cs) |->
                       calculate_selection_delta_deep(nodes, disk, cs[i],
                                                      target_state)]
         IN <<SumSeq([i \in 1..Len(cs) |-> ds[i][1]]),
              SumSeq([i \in 1..Len(cs) |-> ds[i][2]])>>

RECURSIVE calculate_selection_delta(_, _, _, _)
\* _calculate_selection_delta(node, target_state): <<count, size>>
calculate_selection_delta(nodes, disk, n, target_state) ==
    IF nodes[n].selected = target_state THEN <<0, 0>>
    ELSE IF ~is_selectable(nodes, disk, n) THEN <<0, 0>>
    ELSE IF nodes[n].type = "file"
         THEN LET change == IF target_state THEN 1 ELSE -1
              IN <<change, change * nodes[n].size>>
    ELSE LET cs == nodes[n].children
             ds == [i \in 1..Len(cs) |->
                       calculate_selection_delta(nodes, disk, cs[i], target_state)]
         IN <<SumSeq([i \in 1..Len(cs) |-> ds[i][1]]),
              SumSeq([i \in 1..Len(cs) |-> ds[i][2]])>>

RECURSIVE apply_selection_state_forced(_, _, _, _)
RECURSIVE apply_selection_children_forced(_, _, _, _)
\* An apply that sets the flag and descends whatever the node's flag was.
apply_selection_state_forced(nodes, disk, n, state) ==
    IF is_selectable(nodes, disk, n)
    THEN apply_selection_children_forced([nodes EXCEPT ![n].selected = state],
                                         disk, nodes[n].children, state)
    ELSE nodes
apply_selection_children_forced(nodes, disk, cs, state) ==
    IF cs = <<>> THEN nodes
    ELSE apply_selection_children_forced(
             apply_selection_state_forced(nodes, disk, cs[1], state),
             disk, Tail(cs), state)

RECURSIVE apply_selection_state(_, _, _, _)
RECURSIVE apply_selection_children(_, _, _, _)
\* _apply_selection_state(node, state): the nodes after it.
apply_selection_state(nodes, disk, n, state) ==
    IF is_selectable(nodes, disk, n) /\ nodes[n].selected # state
    THEN apply_selection_children([nodes EXCEPT ![n].selected = state], disk,
                                  nodes[n].children, state)
    ELSE nodes
\* for child in node.get('children', []): self._apply_selection_state(child, state)
apply_selection_children(nodes, disk, cs, state) ==
    IF cs = <<>> THEN nodes
    ELSE apply_selection_children(apply_selection_state(nodes, disk, cs[1], state),
                                  disk, Tail(cs), state)

RECURSIVE flatten(_, _)
RECURSIVE flatten_children(_, _)
\* recurse(node) of _update_flat_list: the node, then its children if expanded.
flatten(nodes, n) ==
    <<n>> \o (IF nodes[n].expanded THEN flatten_children(nodes, nodes[n].children)
              ELSE <<>>)
flatten_children(nodes, cs) ==
    IF cs = <<>> THEN <<>>
    ELSE flatten(nodes, cs[1]) \o flatten_children(nodes, Tail(cs))

\* A tree that is None.
NoTree == <<>>

\* The flat list _update_flat_list builds.
flat_list_of(nodes) == IF nodes = NoTree THEN <<>> ELSE flatten(nodes, ROOT)

\* The cursor after _update_flat_list's clamp.
clamp_cursor(pos, list) ==
    IF pos >= Len(list) THEN (IF Len(list) - 1 > 0 THEN Len(list) - 1 ELSE 0)
    ELSE pos

RECURSIVE RelPath(_, _)
\* os.path.relpath(node["path"], root_dir).replace(os.sep, '/')
RelPath(disk, e) ==
    IF disk[e].parent = ROOT THEN disk[e].name
    ELSE RelPath(disk, disk[e].parent) \o <<"/">> \o disk[e].name

\* f.read() of a scanned file: as many characters as its size, in lines of
\* one character.
FileText(disk, e) ==
    [k \in 1..disk[e].bytes |-> IF k % 2 = 1 THEN "\n" ELSE "x"]

RECURSIVE export_pairs(_, _, _)
RECURSIVE export_pairs_children(_, _, _)
\* recurse(node) of _generate_fdl_string: the (path, content) pairs appended.
export_pairs(nodes, disk, n) ==
    IF nodes[n].selected
    THEN IF nodes[n].type = "file"
         THEN (IF is_encodable(disk, n)
               THEN <<[path |-> RelPath(disk, n), content |-> FileText(disk, n)]>>
               ELSE <<>>)
         ELSE export_pairs_children(nodes, disk, nodes[n].children)
    ELSE <<>>
export_pairs_children(nodes, disk, cs) ==
    IF cs = <<>> THEN <<>>
    ELSE export_pairs(nodes, disk, cs[1]) \o export_pairs_children(nodes, disk, Tail(cs))

\* _generate_fdl_string()
generate_fdl_string(nodes, disk) ==
    IF nodes = NoTree THEN <<>>
    ELSE Join(<<"\n">>, FdlParts(export_pairs(nodes, disk, ROOT)))

\* current_path == "" of a fresh ProgressTracker
NoPath == -1

\* ------------------------------------------------------------------------
\* Sorter, viewport and renderer (pure parts)
\* ------------------------------------------------------------------------
Max(a, b) == IF a >= b THEN a ELSE b
Min(a, b) == IF a <= b THEN a ELSE b

\* key_func of _sort_children: the key of node a is less than the key of b.
\* 'name': (type == 'file', name.lower());
\* 'size': (type == 'file', -size, name.lower()).
SortKeyLess(nodes, sort_by, a, b) ==
    LET fa == nodes[a].type = "file"
        fb == nodes[b].type = "file"
        byName == StrLess(Lower(nodes[a].name), Lower(nodes[b].name))
    IN \/ (~fa /\ fb)
       \/ /\ fa = fb
          /\ IF sort_by = "size"
             THEN \/ nodes[a].size > nodes[b].size
                  \/ (nodes[a].size = nodes[b].size /\ byName)
             ELSE byName

\* node["children"].sort(key=key_func): a stable sort.
sorted_children(nodes, sort_by, cs) ==
    LET n == Len(cs)
        Before(i, j) == \/ SortKeyLess(nodes, sort_by, cs[i], cs[j])
                        \/ (~SortKeyLess(nodes, sort_by, cs[j], cs[i]) /\ i < j)
        Rank(j) == 1 + Cardinality({i \in 1..n : i # j /\ Before(i, j)})
    IN [r \in 1..n |-> cs[CHOOSE j \in 1..n : Rank(j) = r]]

\* A sort of the children of one directory only, not of the levels below.
sort_children_shallow(nodes, n, sort_by) ==
    IF nodes[n].type = "dir" /\ nodes[n].children # <<>>
    THEN [nodes EXCEPT ![n].children = sorted_children(nodes, sort_by, @)]
    ELSE nodes

RECURSIVE sort_children(_, _, _)
RECURSIVE sort_children_each(_, _, _)
\* _sort_children(node): sorts the children of a directory that has some,
\* then does the same in every child.
sort_children(nodes, n, sort_by) ==
    IF nodes[n].type = "dir" /\ nodes[n].children # <<>>
    THEN LET sorted == [nodes EXCEPT
                           ![n].children = sorted_children(nodes, sort_by, @)]
         IN sort_children_each(sorted, sorted[n].children, sort_by)
    ELSE nodes
sort_children_each(nodes, cs, sort_by) ==
    IF cs = <<>> THEN nodes
    ELSE sort_children_each(sort_children(nodes, cs[1], sort_by), Tail(cs), sort_by)

\* self.sort_by = 'size' if self.sort_by == 'name' else 'name'
other_sort(sort_by) == IF sort_by = "name" THEN "size" ELSE "name"

\* cursor_pos after KEY_UP
cursor_up(pos) == Max(0, pos - 1)

\* A KEY_DOWN that does not stop at the last row.
cursor_down_unbounded(pos, list) == pos + 1

\* cursor_pos after KEY_DOWN
cursor_down(pos, list) == Min(Len(list) - 1, pos + 1)

\* A top_line that puts the cursor in the middle of the window whenever the
\* cursor has left the window.
browse_top_line_recentred(cursor, top, height) ==
    IF cursor < top \/ cursor >= top + height - 2
    THEN Max(0, cursor - ((height - 2) \div 2))
    ELSE top

\* top_line after the two tests of _draw_browse_mode.
browse_top_line(cursor, top, height) ==
    LET t == IF cursor < top THEN cursor ELSE top
    IN IF cursor >= t + height - 2 THEN cursor - height + 3 ELSE t

\* seq[lo:hi] for 0 <= lo
PySlice(seq, lo, hi) ==
    IF hi <= lo THEN <<>> ELSE SubSeq(seq, lo + 1, Min(hi, Len(seq)))

\* content_h of the preview key handler and of _draw_preview_mode
key_content_h(height) == Max(1, height - 10)
preview_p_h(height) == Max(height - 6, 10)
preview_p_w(width) == Max(width - 10, 20)
draw_content_h(height) == preview_p_h(height) - 4

\* max(0, len(self.preview_content) - content_h)
scroll_limit(content, height) == Max(0, Len(content) - key_content_h(height))

\* preview_scroll after a scrolling key of the preview.
preview_scroll_after(key, scroll, content, height) ==
    CASE key = "up" -> Max(0, scroll - 1)
      [] key = "down" -> Min(scroll_limit(content, height), scroll + 1)
      [] key = "pgup" -> Max(0, scroll - key_content_h(height))
      [] key = "pgdown" ->
            Min(scroll_limit(content, height), scroll + key_content_h(height))
      [] key = "home" -> 0
      [] key = "end" -> scroll_limit(content, height)

\* A prompt that takes every reply for a yes.
quit_confirmed_always(reply) == TRUE

\* self.term.inkey().lower() == 'y'
quit_confirmed(reply) == reply \in {"y", "Y"}

\* A screen row is [kind, args, centered, pad, n]: what the text is made of,
\* whether term.center padded it, the spaces ljust appended, and its length.
\* Styling sequences are left out of the length.
Line(kind, args, n) ==
    [kind |-> kind, args |-> args, centered |-> FALSE, pad |-> 0, n |-> n]

\* ""
EmptyLine == Line("", <<>>, 0)

\* None, the last_line of a row the buffer does not hold
NoLine == Line("None", <<>>, 0 - 1)

\* line.ljust(width)
ljust(line, width) ==
    IF line.n >= width THEN line
    ELSE [line EXCEPT !.pad = @ + (width - line.n), !.n = width]

\* self.term.center(text)
center(line, width) ==
    [line EXCEPT !.centered = TRUE, !.n = Max(@, width)]

RECURSIVE Digits(_)
\* len(str(k)) for k >= 0
Digits(k) == IF k < 10 THEN 1 ELSE 1 + Digits(k \div 10)

\* len(format_size(size_bytes))
format_size_len(size_bytes) ==
    IF size_bytes < 1024 THEN Digits(size_bytes) + 2
    ELSE IF size_bytes < 1024 * 1024 THEN Digits(size_bytes \div 1024) + 5
    ELSE Digits(size_bytes \div (1024 * 1024)) + 5

\* len(self.term.move(y, x)): ESC [ y+1 ; x+1 H
move_len(y, x) == 4 + Digits(y + 1) + Digits(x + 1)

\* Numbers standing for the two sort criteria and for booleans in row args.
SortCode(sort_by) == IF sort_by = "size" THEN 1 ELSE 0
Bit(b) == IF b THEN 1 ELSE 0

\* lines[i] = value with Python's indexing of a list of length len: the
\* 1-based position, 0 for IndexError.
py_index(i, len) ==
    IF 0 <= i /\ i < len THEN i + 1
    ELSE IF i < 0 /\ i + len >= 0 THEN i + len + 1
    ELSE 0

RECURSIVE assign_lines(_, _)
\* A run of assignments lines[at] = line: [ok, lines], ok FALSE if one of
\* them raised IndexError.
assign_lines(lines, writes) ==
    IF writes = <<>> THEN [ok |-> TRUE, lines |-> lines]
    ELSE LET k == py_index(writes[1].at, Len(lines))
         IN IF k = 0 THEN [ok |-> FALSE, lines |-> lines]
            ELSE assign_lines([lines EXCEPT ![k] = writes[1].line], Tail(writes))

\* self.message: none, or what the last handler reported.
NoMessage == [code |-> 0, arg |-> 0]
SortedMessage(sort_by) == [code |-> 1, arg |-> SortCode(sort_by)]
CopiedMessage(content) == [code |-> 2, arg |-> Len(content)]
SavedMessage == [code |-> 3, arg |-> 0]

\* len(self.message)
message_len(msg) ==
    CASE msg.code = 1 -> 14
      [] msg.code = 2 -> 7 + format_size_len(msg.arg) + 14
      [] msg.code = 3 -> 40
      [] OTHER -> 0

\* len(path) of an entry: the root is "/r", an entry below it adds "/" and
\* its relative path.
path_len(disk, e) ==
    IF e = ROOT THEN 1 + Len(disk[ROOT].name)
    ELSE 1 + Len(disk[ROOT].name) + 1 + Len(RelPath(disk, e))

\* The lines of _draw_loading_screen for a get_state() triple.
loading_lines(state, disk, height, width) ==
    LET title == center(Line("title", <<>>, 19), width)
        capped == Min(state.count, state.total)
        bar_width == width - 20
        filled_len == (bar_width * capped) \div state.total
        permille == (2000 * capped + state.total) \div (2 * state.total)
        bar == center(Line("bar", <<filled_len, bar_width - filled_len, permille>>,
                           1 + Max(bar_width, 0) + 2 + Digits(permille \div 10) + 3),
                      width)
        plen == IF state.current_path = NoPath THEN 0
                ELSE path_len(disk, state.current_path)
        cut == plen > width - 4
        path == center(Line("path", <<state.current_path, Bit(cut)>>,
                            IF cut THEN 3 + Min(plen, Max(width - 7, 0)) ELSE plen),
                       width)
        blank == [i \in 1..height |-> EmptyLine]
    IN assign_lines(blank,
          <<[at |-> (height \div 2) - 2, line |-> title]>>
          \o (IF state.total > 0
              THEN <<[at |-> height \div 2, line |-> bar]>> ELSE <<>>)
          \o <<[at |-> (height \div 2) + 2, line |-> path]>>)

\* The header line of _draw_browse_mode.
header_line(sel_size, sel_count, tot_size, tot_count, sort_by, width) ==
    Line("header", <<sel_size, sel_count, tot_size, tot_count, SortCode(sort_by)>>,
         Max(width, 25 + format_size_len(sel_size) + 2 + Digits(sel_count) + 1
                    + 10 + format_size_len(tot_size) + 2 + Digits(tot_count) + 1
                    + 13))

\* The line of one visible node.
item_line(nodes, disk, n, is_cursor, width) ==
    LET node == nodes[n]
        sel == IF node.type = "file" /\ ~is_encodable(disk, n) THEN 0
               ELSE IF node.selected THEN 1 ELSE 2
        icon == IF node.expanded THEN 0 ELSE IF node.type = "dir" THEN 1 ELSE 2
        size_len == IF node.size > 0 THEN format_size_len(node.size) + 2 ELSE 0
        stripped == 2 * node.depth + 3 + 1 + 2 + Len(node.name)
                    + Bit(node.type = "dir")
        padding == width - stripped - size_len
    IN Line("item", <<n, node.depth, sel, icon, node.size, Bit(is_cursor)>>,
            stripped + Max(padding, 0) + size_len)

\* The footer line: the key help, or the message when there is one.
footer_line(msg, width) ==
    Line("footer", <<msg.code, msg.arg>>,
         IF msg.code = 0 THEN Max(width, 95) ELSE Max(width, message_len(msg)))

\* The lines of _draw_browse_mode, top being top_line after its adjustment.
browse_lines(nodes, disk, list, cursor, top, ssize, scount, tsize, tcount, sort_by, msg, height, width) ==
    LET visible == PySlice(list, top, top + height - 2)
        items == [i \in 1..Len(visible) |->
                     item_line(nodes, disk, visible[i], top + i - 1 = cursor, width)]
        body == <<header_line(ssize, scount, tsize, tcount,
                              sort_by, width)>> \o items
        fill == [i \in 1..Max(0, height - 1 - Len(body)) |-> EmptyLine]
    IN body \o fill \o <<footer_line(msg, width)>>

\* The lines of _draw_preview_mode over the buffer of the frame before.
preview_lines(buffer, nodes, n, content, scroll, height, width) ==
    LET p_w == preview_p_w(width)
        p_h == preview_p_h(height)
        p_x == (width - p_w) \div 2
        p_y == (height - p_h) \div 2
        content_h == p_h - 4
        top == [at |-> p_y,
                line |-> Line("box_top", <<p_y, p_x>>, move_len(p_y, p_x) + p_w)]
        sides == [i \in 1..(p_h - 2) |->
                    [at |-> p_y + i,
                     line |-> Line("box_side", <<p_y + i, p_x>>,
                                   move_len(p_y + i, p_x) + p_w)]]
        bottom == [at |-> p_y + p_h - 1,
                   line |-> Line("box_bottom", <<p_y + p_h - 1, p_x>>,
                                 move_len(p_y + p_h - 1, p_x) + p_w)]
        title == [at |-> p_y,
                  line |-> Line("box_title", <<p_y, p_x + 1, n, nodes[n].size>>,
                                move_len(p_y, p_x + 1) + 10 + Len(nodes[n].name)
                                + 2 + format_size_len(nodes[n].size) + 2)]
        shown == {i \in 0..(content_h - 1) : scroll + i < Len(content)}
        rows == [i \in 1..Cardinality(shown) |->
                    LET k == CHOOSE k \in shown :
                                Cardinality({j \in shown : j < k}) = i - 1
                    IN [at |-> p_y + 2 + k,
                        line |-> Line("box_content",
                                      <<p_y + 2 + k, p_x + 2, n, scroll + k,
                                        Len(content), Len(content[scroll + k + 1])>>,
                                      move_len(p_y + 2 + k, p_x + 2)
                                      + Min(Len(content[scroll + k + 1]), p_w - 4))]]
        foot == [at |-> p_y + p_h - 2,
                 line |-> Line("box_footer",
                               <<p_y + p_h - 2, p_x + 1, scroll + 1, Len(content)>>,
                               move_len(p_y + p_h - 2, p_x + 1)
                               + Max(3 + Digits(scroll + 1) + 1 + Digits(Len(content)),
                                     p_w - 2 - 26) + 26)]
    IN assign_lines(buffer, <<top>> \o sides \o <<bottom, title>> \o rows \o <<foot>>)

\* The new line and the last line _render compares at row i (0-based).
new_line_at(new_lines, i, width) ==
    ljust(IF i < Len(new_lines) THEN new_lines[i + 1] ELSE EmptyLine, width)
last_line_at(last_lines, i) ==
    IF i < Len(last_lines) THEN last_lines[i + 1] ELSE NoLine

\* _render(new_lines): the rows it prints.
render_rows(new_lines, last_lines, height, width) ==
    {i \in 0..(height - 1) :
        new_line_at(new_lines, i, width) # last_line_at(last_lines, i)}

\* ------------------------------------------------------------------------
\* State
\* ------------------------------------------------------------------------
VARIABLES
    source,        \* text files of the source directory, in walk order
    clipboard,     \* the text handed from fdl_copy to fdl_paste
    pc,            \* position of the codec run
    parts,         \* fdl_to_dir: parts
    idx,           \* fdl_to_dir: index in parts of the next part of the loop
    created_count, \* fdl_to_dir: created_count
    disk_files,    \* destination disk: full path -> content
    disk_dirs,     \* destination disk: directories
    target_existed,\* whether target_dir existed before fdl_to_dir ran
    unwritable,    \* full paths open(..., 'w') fails on
    written,       \* the files written, in order: <<relative path, content>>
    error          \* the exception fdl_to_dir raised, "" if none

codecVars == <<source, clipboard, pc, parts, idx, created_count, disk_files,
               disk_dirs, target_existed, unwritable, written, error>>

VARIABLES
    scan_fs,               \* the directory tree under root_dir, by entry id
    exclude_patterns,      \* self.exclude_patterns
    worker_pc,             \* position of the loader thread
    scan_pos,              \* number of nodes _build_tree has visited
    progress,              \* self.progress: [count, total, current_path]
    snapshot,              \* get_state() of the last loading frame
    tree_result,           \* self.tree_result
    total_encodable_count, \* self.total_encodable_count
    total_encodable_size,  \* self.total_encodable_size
    selected_count,        \* self.selected_count
    selected_size,         \* self.selected_size
    tree,                  \* self.tree: node by id, NoTree for None
    mode,                  \* self.mode
    flat_list,             \* self.flat_list (node ids)
    cursor_pos,            \* self.cursor_pos (0-based)
    last                   \* the last key handled: key, current_node,
                           \* target_state, the node's flag before, content

treeVars == <<scan_fs, exclude_patterns, worker_pc, scan_pos, progress, snapshot,
              tree_result, total_encodable_count, total_encodable_size,
              selected_count, selected_size, tree, mode, flat_list, cursor_pos,
              last>>

VARIABLES
    term_height,       \* self.term.height
    lock,              \* self.progress.lock: "free" or its holder
    main_pc,           \* where run() stands: "frame", "alive", "inkey",
                       \* "prompt", "exited" (break), "crashed" (exception)
    sort_by,           \* self.sort_by
    top_line,          \* self.top_line
    last_drawn_lines,  \* self.last_drawn_lines
    preview_node,      \* self.preview_node
    preview_content,   \* self.preview_content
    preview_scroll     \* self.preview_scroll

viewVars == <<term_height, lock, main_pc, sort_by, top_line, last_drawn_lines,
              preview_node, preview_content, preview_scroll>>

vars == <<codecVars, treeVars, viewVars>>

\* self.term.width
term_width == 80

NoKey == [key |-> "", node |-> NoPath, target |-> FALSE, was |-> FALSE,
          content |-> <<>>]

\* No get_state() triple is held.
NoSnapshot == [count |-> 0, total |-> 0, current_path |-> NoPath]

RootEntry ==
    [parent |-> ROOT, name |-> <<"r">>, type |-> "dir", listable |-> TRUE,
     encodable |-> FALSE, bytes |-> 0]

\* FdlTuiApp.__init__, before the loader thread has run.
AppConstructed ==
    /\ progress = [count |-> 0, total |-> 0, current_path |-> NoPath]
    /\ snapshot = NoSnapshot
    /\ scan_pos = 0
    /\ tree_result = NoTree
    /\ total_encodable_count = 0
    /\ total_encodable_size = 0
    /\ selected_count = 0
    /\ selected_size = 0
    /\ tree = NoTree
    /\ flat_list = <<>>
    /\ cursor_pos = 0
    /\ last = NoKey
    /\ sort_by = "name"
    /\ top_line = 0
    /\ last_drawn_lines = <<>>
    /\ preview_node = NoPath
    /\ preview_content = <<>>
    /\ preview_scroll = 0
    /\ lock = "free"

\* No TUI runs.
TuiIdle ==
    /\ scan_fs = (ROOT :> RootEntry)
    /\ exclude_patterns = <<>>
    /\ worker_pc = "idle"
    /\ mode = "idle"
    /\ main_pc = "idle"
    /\ term_height = 0
    /\ AppConstructed

\* No codec run.
CodecIdle ==
    /\ source = <<>>
    /\ pc = "idle"
    /\ parts = <<>>
    /\ idx = 0
    /\ created_count = 0
    /\ disk_files = <<>>
    /\ target_existed = FALSE
    /\ disk_dirs = {}
    /\ unwritable = {}
    /\ written = <<>>
    /\ error = ""

NoFile == <<>>

os_path_exists(p) == p \in disk_dirs \/ p \in DOMAIN disk_files

UnwritableChoices ==
    {{}} \cup {{PathJoin(target_dir, SrcPath(i))} : i \in 1..MaxRecords}

CodecInit ==
    /\ \/ /\ pc = "copy"
          /\ \E cs \in Sources : source = SourcePairs(cs)
          /\ clipboard = <<>>
       \/ /\ pc = "paste"
          /\ source = <<>>
          /\ \E lead \in Leads, r \in HandRecords :
                clipboard = lead \o dir_to_fdl(r)
    /\ parts = <<>>
    /\ idx = 0
    /\ created_count = 0
    /\ disk_files = NoFile
    /\ target_existed \in BOOLEAN
    /\ disk_dirs = IF target_existed THEN {target_dir} ELSE {}
    /\ unwritable \in UnwritableChoices
    /\ written = <<>>
    /\ error = ""
    /\ TuiIdle

\* fdl_copy.py main: fdl_string = dir_to_fdl(directory); pyperclip.copy.
Copy ==
    /\ pc = "copy"
    /\ clipboard' = dir_to_fdl(source)
    /\ pc' = "paste"
    /\ UNCHANGED <<source, parts, idx, created_count, disk_files, disk_dirs,
                   target_existed, unwritable, written, error>>
    /\ UNCHANGED <<treeVars, viewVars>>

\* fdl_to_dir up to the loop: normalise, marker check, split, target_dir.
FdlToDirBegin ==
    /\ pc = "paste"
    /\ LET normalized == normalized_fdl(clipboard) IN
       IF ~HasMarker(normalized)
       THEN /\ pc' = "raised"
            /\ error' = "ValueError"
            /\ UNCHANGED <<parts, idx, disk_dirs>>
       ELSE /\ parts' = SplitParts(normalized)
            /\ disk_dirs' = IF os_path_exists(target_dir) THEN disk_dirs
                            ELSE disk_dirs \cup PathComponents(target_dir)
            /\ idx' = 2
            /\ pc' = "loop"
            /\ UNCHANGED error
    /\ created_count' = 0
    /\ UNCHANGED <<source, clipboard, disk_files, target_existed, unwritable,
                   written>>
    /\ UNCHANGED <<treeVars, viewVars>>

\* One pass of "for part in parts[1:]".
FdlToDirPart ==
    /\ pc = "loop"
    /\ idx <= Len(parts)
    /\ LET part == parts[idx]
           pathContent == SplitPathContent(part)
           relative_path == relative_path_of(pathContent.path_part)
           content == pathContent.content
           full_path == PathJoin(target_dir, relative_path)
           parent_dir == Dirname(full_path)
           needDirs == parent_dir # <<>> /\ ~os_path_exists(parent_dir)
           makedirsFails ==
               \E c \in PathComponents(parent_dir) : c \in DOMAIN disk_files
           dirsAfter == IF needDirs THEN disk_dirs \cup PathComponents(parent_dir)
                        ELSE disk_dirs
           openFails ==
               \/ full_path \in unwritable
               \/ full_path \in dirsAfter
               \/ (parent_dir # <<>> /\ parent_dir \notin dirsAfter)
       IN
       IF Strip(part) = <<>> \/ relative_path = <<>>
       THEN /\ idx' = idx + 1
            /\ UNCHANGED <<pc, error, created_count, disk_files, disk_dirs, written>>
       ELSE IF needDirs /\ makedirsFails
       THEN /\ pc' = "raised"
            /\ error' = "OSError"
            /\ UNCHANGED <<idx, created_count, disk_files, disk_dirs, written>>
       ELSE IF openFails
       THEN /\ pc' = "raised"
            /\ error' = "OSError"
            /\ disk_dirs' = dirsAfter
            /\ UNCHANGED <<idx, created_count, disk_files, written>>
       ELSE /\ disk_dirs' = dirsAfter
            /\ disk_files' =
                  [p \in DOMAIN disk_files \cup {full_path} |->
                      IF p = full_path THEN content ELSE disk_files[p]]
            /\ written' = Append(written, <<relative_path, content>>)
            /\ created_count' = created_count + 1
            /\ idx' = idx + 1
            /\ UNCHANGED <<pc, error>>
    /\ UNCHANGED <<source, clipboard, parts, target_existed, unwritable>>
    /\ UNCHANGED <<treeVars, viewVars>>

\* return created_count
FdlToDirReturn ==
    /\ pc = "loop"
    /\ idx > Len(parts)
    /\ pc' = "returned"
    /\ UNCHANGED <<source, clipboard, parts, idx, created_count, disk_files,
                   disk_dirs, target_existed, unwritable, written, error>>
    /\ UNCHANGED <<treeVars, viewVars>>

CodecNext == Copy \/ FdlToDirBegin \/ FdlToDirPart \/ FdlToDirReturn

SpecCodec == CodecInit /\ [][CodecNext]_vars

\* ------------------------------------------------------------------------
\* Claims about the codec (checked under SpecCodec)
\* ------------------------------------------------------------------------
Delimiter == <<"\n">> \o FILE_MARKER \o <<" ">>

\* The run started from a source directory and fdl_to_dir has ended.
CopyPasteEnded == source # <<>> /\ pc \in {"returned", "raised"}

\* The pairs of the source directory, as the write log records them.
SourceLog == [i \in 1..Len(source) |-> <<source[i].path, source[i].content>>]

\* C1: decoding the block dir_to_fdl produced from pairs with well-formed
\* relative paths and contents free of "\n$$FILE " writes exactly these pairs,
\* in order, with identical content (contents ending in a newline, empty
\* contents and contents starting with "$$FILE " included).
C1_RoundTrip ==
    (/\ CopyPasteEnded
     /\ unwritable = {}
     /\ \A i \in 1..Len(source) : ~Contains(source[i].content, Delimiter))
    => (pc = "returned" /\ written = SourceLog)

\* The text does not begin with the marker once leading whitespace is trimmed.
LacksLeadingMarker(text) == ~StartsWith(LStrip(text), FILE_MARKER)

DiskUntouched ==
    /\ disk_files = NoFile
    /\ disk_dirs = (IF target_existed THEN {target_dir} ELSE {})
    /\ written = <<>>

\* C7: fdl_to_dir on a text that does not begin with $$FILE after trimming
\* leading whitespace ends in the format error and changes nothing on disk:
\* no file is written and no directory, target_dir included, is created.
C7_FormatErrorTouchesNothing ==
    (pc \notin {"copy", "paste"} /\ LacksLeadingMarker(clipboard))
    => (pc = "raised" /\ error = "ValueError" /\ DiskUntouched)

\* C7 witness: the format error was raised with target_dir absent before and
\* after.
C7_Witness ==
    /\ pc = "raised"
    /\ error = "ValueError"
    /\ LacksLeadingMarker(clipboard)
    /\ ~target_existed
    /\ disk_dirs = {}

\* The records fdl_to_dir's split yields, by index in parts (parts[1] is not
\* one), with the path trimmed.
TrimmedPath(part) == Strip(SplitPathContent(part).path_part)
IsRecord(i) == i \in 2..Len(parts)
NonBlank(i) == TrimmedPath(parts[i]) # <<>>
Writable(i) == PathJoin(target_dir, TrimmedPath(parts[i])) \notin unwritable
Materialized(i) ==
    PathJoin(target_dir, TrimmedPath(parts[i])) \in DOMAIN disk_files

\* C8: a write that fails with an I/O error does not abort the batch: decode
\* goes on to the end and every record with a writable non-empty path, the
\* later ones included, is materialized.
C8_WriteFailureContinues ==
    (pc \in {"returned", "raised"} /\ error # "ValueError")
    => \A i \in 2..Len(parts) : (NonBlank(i) /\ Writable(i)) => Materialized(i)

RECURSIVE NonBlankLog(_, _)
\* <<path, content>> of the records lo..hi of parts whose trimmed path is not
\* empty, in order.
NonBlankLog(lo, hi) ==
    IF lo > hi THEN <<>>
    ELSE LET rest == NonBlankLog(lo + 1, hi) IN
         IF NonBlank(lo)
         THEN <<<<TrimmedPath(parts[lo]), SplitPathContent(parts[lo]).content>>>>
              \o rest
         ELSE rest

\* C9: a record whose path is empty after trimming is skipped: nothing is
\* written for it, the loop goes on (an abort never happens at such a record),
\* the records before and after it are written, and the returned created_count
\* is the number of records with a non-empty path.
C9_BlankPathSkipped ==
    /\ pc \in {"loop", "returned"} =>
          /\ written = NonBlankLog(2, idx - 1)
          /\ created_count = Len(written)
    /\ pc = "returned" =>
          /\ idx = Len(parts) + 1
          /\ created_count = Cardinality({i \in 2..Len(parts) : NonBlank(i)})
          /\ \A i \in 2..Len(parts) : NonBlank(i) => Materialized(i)
    /\ (pc = "raised" /\ error = "OSError") => (IsRecord(idx) /\ NonBlank(idx))

\* C9 witness: fdl_to_dir returned after skipping a blank-path record that had
\* a written record before it and another after it.
C9_Witness ==
    /\ pc = "returned"
    /\ \E i, j, k \in 2..Len(parts) :
          /\ i < j /\ j < k
          /\ NonBlank(i) /\ ~NonBlank(j) /\ NonBlank(k)
          /\ Materialized(i) /\ Materialized(k)
    /\ created_count < Len(parts) - 1

\* ------------------------------------------------------------------------
\* The tree browser: inputs and initial state
\* ------------------------------------------------------------------------
\* Kinds of disk entry: a directory, a directory scandir fails on, a text
\* file, a file the probe rejects.
AllKinds == {"dir", "xdir", "file", "bin"}
BrowseKinds == {"dir", "file", "bin"}
DirKinds == {"dir", "xdir"}

RECURSIVE Pow2(_)
Pow2(k) == IF k = 0 THEN 1 ELSE 2 * Pow2(k - 1)

\* os.path.getsize of file i: sizes differ from file to file.
FileBytes(i) == Pow2(i - 1)

DiskEntry(parent, name, kind, i) ==
    [parent |-> parent, name |-> name,
     type |-> IF kind \in DirKinds THEN "dir" ELSE "file",
     listable |-> kind = "dir",
     encodable |-> kind = "file",
     bytes |-> IF kind \in DirKinds THEN 0 ELSE FileBytes(i)]

\* Entry names when they are left free, and the name of entry i when fixed.
ScanNames == {<<"s">>, <<"s", "a">>}
CanonLetters == <<"A", "a", "S", "s">>
CanonName(i) == <<CanonLetters[((i - 1) % Len(CanonLetters)) + 1]>>

ExcludeChoices ==
    {<<>>, <<<<"s">>>>, <<<<"?", "a">>, <<"s">>>>, <<<<"s", "*">>>>}

\* The app is constructed over some directory tree of at most MaxEntries
\* entries below root_dir (numbered breadth-first; siblings differ in name).
TuiInit(N, Kinds, NamesAt, Excludes) ==
    /\ \E n \in 1..N :
         \E parent \in [1..n -> 0..(n - 1)] :
            /\ \A i \in 1..n : parent[i] < i
            /\ \A i \in 1..(n - 1) : parent[i] <= parent[i + 1]
            /\ \E kind \in [1..n -> Kinds] :
                  /\ \A i \in 1..n :
                        parent[i] # ROOT => kind[parent[i]] \in DirKinds
                  /\ \E name \in [1..n -> UNION {NamesAt[i] : i \in 1..n}] :
                        /\ \A i \in 1..n : name[i] \in NamesAt[i]
                        /\ \A i, j \in 1..n :
                              (i < j /\ parent[i] = parent[j]) => name[i] # name[j]
                        /\ scan_fs =
                              [e \in 0..n |->
                                  IF e = ROOT THEN RootEntry
                                  ELSE DiskEntry(parent[e], name[e], kind[e], e)]
    /\ exclude_patterns \in Excludes
    /\ worker_pc = "walk"
    /\ mode = "loading"
    /\ main_pc = "frame"
    /\ AppConstructed
    /\ clipboard = <<>>
    /\ CodecIdle

\* Terminal heights: five rows is the least the loading screen can index,
\* eleven the least where the preview box has a row below its last one.
SelectHeights == {5}
BrowseHeights == {5, 11}
ScanHeights == {6}

\* Every handler of the loop, over directories of at most MaxFewEntries.
Init ==
    /\ TuiInit(MaxFewEntries, BrowseKinds,
               [i \in 1..MaxFewEntries |-> {CanonName(i)}], {<<>>})
    /\ term_height \in BrowseHeights

\* The selection and sort handlers, over directories of at most MaxEntries.
SelectInit ==
    /\ TuiInit(MaxEntries, BrowseKinds,
               [i \in 1..MaxEntries |-> {CanonName(i)}], {<<>>})
    /\ term_height \in SelectHeights

ScanInit ==
    /\ TuiInit(MaxEntries, AllKinds, [i \in 1..MaxEntries |-> ScanNames],
               ExcludeChoices)
    /\ term_height \in ScanHeights

\* ------------------------------------------------------------------------
\* The loader thread (_build_tree_worker)
\* ------------------------------------------------------------------------
\* What _build_tree(self.root_dir) returns on the current disk.
Built == build_tree(scan_fs, exclude_patterns, ROOT, 0)

\* The paths _build_tree reports to the tracker, in order.
VisitOrder == Preorder(Built.nodes, ROOT)

\* self.progress.set_total(total_files), under the lock
WorkerSetTotal ==
    /\ worker_pc = "walk"
    /\ lock = "free"
    /\ progress' = [progress EXCEPT !.total = total_files(scan_fs)]
    /\ worker_pc' = "build"
    /\ UNCHANGED <<scan_fs, exclude_patterns, scan_pos, snapshot, tree_result,
                   total_encodable_count, total_encodable_size, selected_count,
                   selected_size, tree, mode, flat_list, cursor_pos, last>>
    /\ UNCHANGED viewVars
    /\ UNCHANGED codecVars

\* One call of _build_tree enters self.progress.update(1, current_path=path):
\* the lock is taken and self.count += count_increment
WorkerVisit ==
    /\ worker_pc = "build"
    /\ scan_pos < Len(VisitOrder)
    /\ lock = "free"
    /\ lock' = "worker"
    /\ progress' = [progress EXCEPT !.count = @ + 1]
    /\ UNCHANGED <<scan_fs, exclude_patterns, worker_pc, scan_pos, snapshot,
                   tree_result, total_encodable_count, total_encodable_size,
                   selected_count, selected_size, tree, mode, flat_list,
                   cursor_pos, last>>
    /\ UNCHANGED <<term_height, main_pc, sort_by, top_line, last_drawn_lines,
                   preview_node, preview_content, preview_scroll>>
    /\ UNCHANGED codecVars

\* The rest of update: self.current_path = current_path, the lock is released
WorkerVisitPath ==
    /\ worker_pc = "build"
    /\ lock = "worker"
    /\ lock' = "free"
    /\ progress' = [progress EXCEPT !.current_path = VisitOrder[scan_pos + 1]]
    /\ scan_pos' = scan_pos + 1
    /\ UNCHANGED <<scan_fs, exclude_patterns, worker_pc, snapshot, tree_result,
                   total_encodable_count, total_encodable_size, selected_count,
                   selected_size, tree, mode, flat_list, cursor_pos, last>>
    /\ UNCHANGED <<term_height, main_pc, sort_by, top_line, last_drawn_lines,
                   preview_node, preview_content, preview_scroll>>
    /\ UNCHANGED codecVars

\* self.tree_result, self.total_encodable_count, self.total_encodable_size = ...
WorkerPublish ==
    /\ worker_pc = "build"
    /\ scan_pos = Len(VisitOrder)
    /\ tree_result' = Built.nodes
    /\ total_encodable_count' = Built.count
    /\ total_encodable_size' = Built.size
    /\ worker_pc' = "select"
    /\ UNCHANGED <<scan_fs, exclude_patterns, scan_pos, progress, snapshot,
                   selected_count, selected_size, tree, mode, flat_list,
                   cursor_pos, last>>
    /\ UNCHANGED viewVars
    /\ UNCHANGED codecVars

\* self.selected_count = ...; self.selected_size = ...
WorkerSelect ==
    /\ worker_pc = "select"
    /\ selected_count' = total_encodable_count
    /\ selected_size' = total_encodable_size
    /\ worker_pc' = "return"
    /\ UNCHANGED <<scan_fs, exclude_patterns, scan_pos, progress, snapshot,
                   tree_result, total_encodable_count, total_encodable_size,
                   tree, mode, flat_list, cursor_pos, last>>
    /\ UNCHANGED viewVars
    /\ UNCHANGED codecVars

\* The thread's target returns: loader_thread.is_alive() is False from now on.
WorkerExit ==
    /\ worker_pc = "return"
    /\ worker_pc' = "done"
    /\ UNCHANGED <<scan_fs, exclude_patterns, scan_pos, progress, snapshot,
                   tree_result, total_encodable_count, total_encodable_size,
                   selected_count, selected_size, tree, mode, flat_list,
                   cursor_pos, last>>
    /\ UNCHANGED viewVars
    /\ UNCHANGED codecVars

\* ------------------------------------------------------------------------
\* The main loop (run)
\* ------------------------------------------------------------------------
\* A get_state that reads the three fields without the lock.
get_state_unlocked(l) == TRUE

\* get_state() can take the lock.
get_state_acquires(l) == l = "free"

\* A thread taken for dead as soon as it has published the tree.
loader_is_alive_until_published(wpc) == wpc \in {"walk", "build"}

\* self.loader_thread.is_alive()
loader_is_alive(wpc) == wpc # "done"

\* A pass in mode 'loading', first half: _draw_loading_screen reads the
\* tracker under the lock and renders; an IndexError leaves run().
LoadingFrame ==
    /\ mode = "loading"
    /\ main_pc = "frame"
    /\ get_state_acquires(lock)
    /\ snapshot' = progress
    /\ \E r \in {loading_lines(progress, scan_fs, term_height, term_width)} :
       IF r.ok
       THEN /\ last_drawn_lines' = r.lines
            /\ main_pc' = "alive"
       ELSE /\ main_pc' = "crashed"
            /\ UNCHANGED last_drawn_lines
    /\ UNCHANGED <<scan_fs, exclude_patterns, worker_pc, scan_pos, progress,
                   tree_result, total_encodable_count, total_encodable_size,
                   selected_count, selected_size, tree, mode, flat_list,
                   cursor_pos, last>>
    /\ UNCHANGED <<term_height, lock, sort_by, top_line, preview_node,
                   preview_content, preview_scroll>>
    /\ UNCHANGED codecVars

\* Second half: once the thread is dead the tree is taken over and flattened,
\* the mode is 'browse' and the buffer is emptied (no loading screen is drawn
\* again, so its triple is forgotten); a key read in mode 'loading' is
\* dropped.
LoaderCheck ==
    /\ mode = "loading"
    /\ main_pc = "alive"
    /\ IF ~loader_is_alive(worker_pc)
       THEN /\ tree' = tree_result
            /\ mode' = "browse"
            /\ flat_list' = flat_list_of(tree_result)
            /\ cursor_pos' = clamp_cursor(cursor_pos, flat_list_of(tree_result))
            /\ last_drawn_lines' = <<>>
            /\ snapshot' = NoSnapshot
            /\ main_pc' = "inkey"
       ELSE /\ main_pc' = "frame"
            /\ UNCHANGED <<tree, mode, flat_list, cursor_pos, last_drawn_lines,
                           snapshot>>
    /\ UNCHANGED <<scan_fs, exclude_patterns, worker_pc, scan_pos, progress,
                   tree_result, total_encodable_count,
                   total_encodable_size, selected_count, selected_size, last>>
    /\ UNCHANGED <<term_height, lock, sort_by, top_line, preview_node,
                   preview_content, preview_scroll>>
    /\ UNCHANGED codecVars

\* The frame the loop draws after a handler has run: _draw_browse_mode or
\* _draw_preview_mode over the state the handler left, msg being
\* self.message; _render prints render_rows of the new lines against
\* last_drawn_lines and keeps the new lines. An IndexError leaves run().
DrawFrame(msg) ==
    IF mode' = "browse"
    THEN /\ top_line' = browse_top_line(cursor_pos', top_line, term_height)
         /\ last_drawn_lines' =
               browse_lines(tree', scan_fs, flat_list', cursor_pos', top_line',
                            selected_size', selected_count',
                            total_encodable_size, total_encodable_count,
                            sort_by', msg, term_height, term_width)
         /\ main_pc' = "inkey"
    ELSE \E r \in {preview_lines(last_drawn_lines, tree', preview_node',
                                 preview_content', preview_scroll',
                                 term_height, term_width)} :
            IF r.ok
            THEN /\ last_drawn_lines' = r.lines
                 /\ main_pc' = "inkey"
                 /\ UNCHANGED top_line
            ELSE /\ main_pc' = "crashed"
                 /\ UNCHANGED <<last_drawn_lines, top_line>>

\* What no handler of the main loop touches.
LoopFixed ==
    /\ UNCHANGED <<scan_fs, exclude_patterns, worker_pc, scan_pos, progress,
                   snapshot, tree_result, total_encodable_count,
                   total_encodable_size, term_height, lock>>
    /\ UNCHANGED codecVars

\* The loop comes round in mode 'browse' after a handler emptied the buffer:
\* _draw_browse_mode, every row being new to _render.
BrowseFrame ==
    /\ main_pc = "frame"
    /\ mode = "browse"
    /\ UNCHANGED <<selected_count, selected_size, tree, mode, flat_list,
                   cursor_pos, sort_by, preview_node, preview_content,
                   preview_scroll, last>>
    /\ LoopFixed
    /\ DrawFrame(NoMessage)

\* A key arrives in mode 'browse' and the flat list is not empty.
BrowseKey == main_pc = "inkey" /\ mode = "browse" /\ flat_list # <<>>

\* current_node = self.flat_list[self.cursor_pos]
current_node == flat_list[cursor_pos + 1]

Pressed(key, target, content) ==
    [key |-> key, node |-> current_node, target |-> target,
     was |-> tree[current_node].selected, content |-> content]

\* inkey timed out, or the key has no handler in the current mode: the loop
\* goes round and draws again.
IdleFrame ==
    /\ main_pc = "inkey"
    /\ mode \in {"browse", "preview"}
    /\ last' = Pressed("", FALSE, <<>>)
    /\ UNCHANGED <<selected_count, selected_size, tree, mode, flat_list,
                   cursor_pos, sort_by, preview_node, preview_content,
                   preview_scroll>>
    /\ LoopFixed
    /\ DrawFrame(NoMessage)

\* KEY_UP
KeyUp ==
    /\ BrowseKey
    /\ cursor_pos' = cursor_up(cursor_pos)
    /\ last' = Pressed("up", FALSE, <<>>)
    /\ UNCHANGED <<selected_count, selected_size, tree, mode, flat_list,
                   sort_by, preview_node, preview_content, preview_scroll>>
    /\ LoopFixed
    /\ DrawFrame(NoMessage)

\* KEY_DOWN
KeyDown ==
    /\ BrowseKey
    /\ cursor_pos' = cursor_down(cursor_pos, flat_list)
    /\ last' = Pressed("down", FALSE, <<>>)
    /\ UNCHANGED <<selected_count, selected_size, tree, mode, flat_list,
                   sort_by, preview_node, preview_content, preview_scroll>>
    /\ LoopFixed
    /\ DrawFrame(NoMessage)

\* current_node["expanded"] = value; self._update_flat_list()
SetExpanded(value) ==
    LET nodes == [tree EXCEPT ![current_node].expanded = value] IN
    /\ tree' = nodes
    /\ flat_list' = flat_list_of(nodes)
    /\ cursor_pos' = clamp_cursor(cursor_pos, flat_list_of(nodes))

\* KEY_LEFT: collapse an expanded directory
KeyLeft ==
    /\ BrowseKey
    /\ IF tree[current_node].type = "dir" /\ tree[current_node].expanded
       THEN SetExpanded(FALSE)
       ELSE UNCHANGED <<tree, flat_list, cursor_pos>>
    /\ last' = Pressed("left", FALSE, <<>>)
    /\ UNCHANGED <<selected_count, selected_size, mode, sort_by, preview_node,
                   preview_content, preview_scroll>>
    /\ LoopFixed
    /\ DrawFrame(NoMessage)

\* KEY_RIGHT: expand a collapsed directory
KeyRight ==
    /\ BrowseKey
    /\ IF tree[current_node].type = "dir" /\ ~tree[current_node].expanded
       THEN SetExpanded(TRUE)
       ELSE UNCHANGED <<tree, flat_list, cursor_pos>>
    /\ last' = Pressed("right", FALSE, <<>>)
    /\ UNCHANGED <<selected_count, selected_size, mode, sort_by, preview_node,
                   preview_content, preview_scroll>>
    /\ LoopFixed
    /\ DrawFrame(NoMessage)

\* target_state = select_state if select_state is not None else not selected;
\* select_state is {} for None, {TRUE} or {FALSE} otherwise.
target_state_of(n, select_state) ==
    IF select_state # {} THEN TRUE \in select_state ELSE ~tree[n].selected

\* _toggle_selection(node, select_state)
toggle_selection(n, select_state) ==
    LET target_state == target_state_of(n, select_state)
        delta == calculate_selection_delta(tree, scan_fs, n, target_state)
    IN IF ~is_selectable(tree, scan_fs, n)
       THEN UNCHANGED <<tree, selected_count, selected_size>>
       ELSE /\ tree' = apply_selection_state(tree, scan_fs, n, target_state)
            /\ selected_count' = selected_count + delta[1]
            /\ selected_size' = selected_size + delta[2]

\* A selection key on current_node.
ToggleKey(key, select_state) ==
    /\ toggle_selection(current_node, select_state)
    /\ last' = Pressed(key, target_state_of(current_node, select_state), <<>>)
    /\ UNCHANGED <<mode, flat_list, cursor_pos, sort_by, preview_node,
                   preview_content, preview_scroll>>
    /\ LoopFixed
    /\ DrawFrame(NoMessage)

\* '+' or '=': self._toggle_selection(current_node, select_state=True)
KeyPlus ==
    /\ BrowseKey
    /\ ToggleKey("+", {TRUE})

\* '-': self._toggle_selection(current_node, select_state=False)
KeyMinus ==
    /\ BrowseKey
    /\ ToggleKey("-", {FALSE})

\* ' ': self._toggle_selection(current_node)
KeySpace ==
    /\ BrowseKey
    /\ ToggleKey(" ", {})

\* The lines 'p' reads: f.read().splitlines(), or the one line of the
\* IOError handler.
ReadError ==
    <<<<"E", "r", "r", "o", "r", " ", "r", "e", "a", "d", "i", "n", "g", " ",
        "f", "i", "l", "e", ".">>>>
preview_reads(disk, n) == {SplitLines(FileText(disk, n)), ReadError}

\* 'p': the preview opens on a file the probe accepts
KeyPreview ==
    /\ BrowseKey
    /\ IF tree[current_node].type = "file" /\ is_encodable(scan_fs, current_node)
       THEN /\ mode' = "preview"
            /\ preview_node' = current_node
            /\ preview_scroll' = 0
            /\ preview_content' \in preview_reads(scan_fs, current_node)
       ELSE UNCHANGED <<mode, preview_node, preview_scroll, preview_content>>
    /\ last' = Pressed("p", FALSE, <<>>)
    /\ UNCHANGED <<selected_count, selected_size, tree, flat_list, cursor_pos,
                   sort_by>>
    /\ LoopFixed
    /\ DrawFrame(NoMessage)

\* Tab: the other criterion, _sort_children(self.tree), _update_flat_list()
KeyTab ==
    /\ BrowseKey
    /\ sort_by' = other_sort(sort_by)
    /\ tree' = sort_children(tree, ROOT, other_sort(sort_by))
    /\ flat_list' = flat_list_of(tree')
    /\ cursor_pos' = clamp_cursor(cursor_pos, flat_list')
    /\ last' = Pressed("tab", FALSE, <<>>)
    /\ UNCHANGED <<selected_count, selected_size, mode, preview_node,
                   preview_content, preview_scroll>>
    /\ LoopFixed
    /\ DrawFrame(SortedMessage(sort_by'))

\* An export key: content = self._generate_fdl_string(), then the sink; an
\* exception of the sink leaves run().
ExportKey(key, message) ==
    /\ last' = Pressed(key, FALSE, generate_fdl_string(tree, scan_fs))
    /\ UNCHANGED <<selected_count, selected_size, tree, mode, flat_list,
                   cursor_pos, sort_by, preview_node, preview_content,
                   preview_scroll>>
    /\ LoopFixed
    /\ \E sink_fails \in BOOLEAN :
          IF sink_fails
          THEN /\ main_pc' = "crashed"
               /\ UNCHANGED <<top_line, last_drawn_lines>>
          ELSE DrawFrame(message)

\* 'c': the content goes to pyperclip.copy
KeyCopy ==
    /\ BrowseKey
    /\ ExportKey("c", CopiedMessage(generate_fdl_string(tree, scan_fs)))

\* 's': the content is written to fdl_output_<time>.txt
KeySave ==
    /\ BrowseKey
    /\ ExportKey("s", SavedMessage)

\* 'q': self.running = False, and the prompt is printed on the last row
KeyQuit ==
    /\ BrowseKey
    /\ main_pc' = "prompt"
    /\ last' = Pressed("q", FALSE, <<>>)
    /\ UNCHANGED <<selected_count, selected_size, tree, mode, flat_list,
                   cursor_pos, sort_by, preview_node, preview_content,
                   preview_scroll, top_line, last_drawn_lines>>
    /\ LoopFixed

\* The keys the prompt is answered with.
Replies == {"y", "Y", "n", "q"}

\* The reply to the prompt: 'y' breaks out of the loop, anything else sets
\* running again and empties the buffer.
QuitReply ==
    /\ main_pc = "prompt"
    /\ \E reply \in Replies :
          /\ last' = Pressed(reply, FALSE, <<>>)
          /\ UNCHANGED <<selected_count, selected_size, tree, mode, flat_list,
                         cursor_pos, sort_by, preview_node, preview_content,
                         preview_scroll>>
          /\ LoopFixed
          /\ IF quit_confirmed(reply)
             THEN /\ main_pc' = "exited"
                  /\ UNCHANGED <<top_line, last_drawn_lines>>
             ELSE /\ main_pc' = "frame"
                  /\ last_drawn_lines' = <<>>
                  /\ UNCHANGED top_line

\* A key arrives in mode 'preview'.
PreviewKey == main_pc = "inkey" /\ mode = "preview"

ScrollKeys == {"up", "down", "pgup", "pgdown", "home", "end"}

\* KEY_UP, KEY_DOWN, KEY_PGUP, KEY_PGDOWN, KEY_HOME, KEY_END in the preview
PreviewScrollKey ==
    /\ PreviewKey
    /\ \E key \in ScrollKeys :
          /\ preview_scroll' = preview_scroll_after(key, preview_scroll,
                                                    preview_content, term_height)
          /\ last' = Pressed(key, FALSE, <<>>)
    /\ UNCHANGED <<selected_count, selected_size, tree, mode, flat_list,
                   cursor_pos, sort_by, preview_node, preview_content>>
    /\ LoopFixed
    /\ DrawFrame(NoMessage)

\* 'p', 'q' or Esc in the preview: self.mode = 'browse', the buffer is emptied
PreviewClose ==
    /\ PreviewKey
    /\ mode' = "browse"
    /\ \E key \in {"p", "q", "esc"} : last' = Pressed(key, FALSE, <<>>)
    /\ UNCHANGED <<selected_count, selected_size, tree, flat_list, cursor_pos,
                   sort_by, preview_node, preview_content, preview_scroll>>
    /\ LoopFixed
    /\ main_pc' = "frame"
    /\ last_drawn_lines' = <<>>
    /\ UNCHANGED top_line

Worker ==
    \/ WorkerSetTotal \/ WorkerVisit \/ WorkerVisitPath
    \/ WorkerPublish \/ WorkerSelect \/ WorkerExit

ScanNext == Worker \/ LoadingFrame \/ LoaderCheck

Next ==
    \/ Worker
    \/ LoadingFrame \/ LoaderCheck
    \/ BrowseFrame \/ IdleFrame
    \/ KeyUp \/ KeyDown \/ KeyLeft \/ KeyRight
    \/ KeyPlus \/ KeyMinus \/ KeySpace
    \/ KeyPreview \/ KeyTab
    \/ KeyCopy \/ KeySave
    \/ KeyQuit \/ QuitReply
    \/ PreviewScrollKey \/ PreviewClose

\* The loop with the navigation, selection and export keys only.
SelectNext ==
    \/ Worker
    \/ LoadingFrame \/ LoaderCheck
    \/ IdleFrame
    \/ KeyUp \/ KeyDown \/ KeyLeft \/ KeyRight
    \/ KeyPlus \/ KeyMinus \/ KeySpace
    \/ KeyCopy \/ KeySave

\* The loop with the navigation and sort keys only.
SortNext ==
    \/ Worker
    \/ LoadingFrame \/ LoaderCheck
    \/ IdleFrame
    \/ KeyUp \/ KeyDown \/ KeyLeft \/ KeyRight
    \/ KeyTab

Spec == Init /\ [][Next]_vars

SpecSelect == SelectInit /\ [][SelectNext]_vars

SpecSort == SelectInit /\ [][SortNext]_vars

SpecScan == ScanInit /\ [][ScanNext]_vars

\* The loader thread and the loading screens over the directories of the
\* browser (no exclusion patterns).
SpecLoad == SelectInit /\ [][ScanNext]_vars

\* ------------------------------------------------------------------------
\* Claims about the selection engine and the exporter (checked under SpecSelect)
\* ------------------------------------------------------------------------
ToggleKeys == {"+", "-", " "}

\* The File nodes of the tree that are selected and encodable.
SelectedFiles ==
    {n \in DOMAIN tree :
        tree[n].type = "file" /\ tree[n].selected /\ scan_fs[n].encodable}

RECURSIVE SizeSum(_)
\* The sum of the nodes' sizes over a set of nodes of the tree.
SizeSum(S) ==
    IF S = {} THEN 0
    ELSE LET n == CHOOSE x \in S : TRUE IN tree[n].size + SizeSum(S \ {n})

\* C2: in Browse mode, after the build and after any toggles, selected_count
\* is the number of selected encodable File nodes and selected_size the sum
\* of their sizes.
C2_AggregateInvariant ==
    mode = "browse" =>
        /\ selected_count = Cardinality(SelectedFiles)
        /\ selected_size = SizeSum(SelectedFiles)

\* C2 witness: a toggle has left some encodable files selected and others not.
C2_Witness ==
    /\ mode = "browse"
    /\ last.key \in ToggleKeys
    /\ 0 < selected_count
    /\ selected_count < total_encodable_count
    /\ \E n \in DOMAIN tree : tree[n].type = "dir" /\ ~tree[n].selected

\* The encodable File nodes in the subtree of node n.
EncodableFilesBelow(n) ==
    {f \in DOMAIN tree :
        /\ \E i \in 1..Len(Preorder(tree, n)) : Preorder(tree, n)[i] = f
        /\ tree[f].type = "file"
        /\ scan_fs[f].encodable}

\* C3: after a toggle applied to a Directory, every encodable File of its
\* subtree holds the target state, whatever was toggled before.
C3_DirectoryTogglePropagates ==
    (mode = "browse" /\ last.key \in ToggleKeys /\ tree[last.node].type = "dir")
    => \A f \in EncodableFilesBelow(last.node) : tree[f].selected = last.target

RECURSIVE SelectedPairs(_)
\* (path, content) of the selected encodable Files among a sequence of nodes.
SelectedPairs(ns) ==
    IF ns = <<>> THEN <<>>
    ELSE (IF ns[1] \in SelectedFiles
          THEN <<[path |-> RelPath(scan_fs, ns[1]),
                  content |-> FileText(scan_fs, ns[1])]>>
          ELSE <<>>) \o SelectedPairs(Tail(ns))

\* C4: the exported block holds exactly one record per selected encodable
\* File, in pre-order, whatever the flags of the directories above them; the
\* number of records is selected_count.
C4_ExportFollowsFileFlags ==
    (mode = "browse" /\ last.key \in {"c", "s"})
    => /\ last.content = dir_to_fdl(SelectedPairs(Preorder(tree, ROOT)))
       /\ Len(SelectedPairs(Preorder(tree, ROOT))) = selected_count

\* C5: '+' on a selected node and '-' on a deselected node add nothing to
\* selected_count and selected_size and change no node's selected flag.
C5_Idempotence ==
    [][(/\ mode = "browse"
        /\ last'.key \in {"+", "-"}
        /\ tree[last'.node].selected = last'.target)
       => (/\ tree' = tree
           /\ selected_count' = selected_count
           /\ selected_size' = selected_size)]_vars

\* C5 witness: '+' or '-' was pressed on a Directory already in that state
\* while an encodable File below it is in the other state.
C5_Witness ==
    /\ mode = "browse"
    /\ last.key \in {"+", "-"}
    /\ last.was = last.target
    /\ tree[last.node].type = "dir"
    /\ \E f \in EncodableFilesBelow(last.node) : tree[f].selected # last.target

\* The File nodes of a tree the probe rejects.
NonEncodableFiles(nodes) ==
    {n \in DOMAIN nodes : nodes[n].type = "file" /\ ~scan_fs[n].encodable}

\* C6: a non-encodable File is deselected after the build and stays so under
\* any toggles of it or of its ancestors; a toggle of it changes neither the
\* tree nor the totals.
C6_NonEncodableNeverSelected ==
    /\ [](/\ \A n \in NonEncodableFiles(tree_result) : ~tree_result[n].selected
          /\ \A n \in NonEncodableFiles(tree) : ~tree[n].selected)
    /\ [][(/\ mode = "browse"
           /\ last'.key \in ToggleKeys
           /\ last'.node \in NonEncodableFiles(tree))
          => (/\ tree' = tree
              /\ selected_count' = selected_count
              /\ selected_size' = selected_size)]_vars

\* C6 witness: a selecting toggle was pressed on a non-encodable File whose
\* directory had been deselected by a toggle before; the File is deselected.
C6_Witness ==
    /\ mode = "browse"
    /\ last.key \in ToggleKeys
    /\ last.node \in NonEncodableFiles(tree)
    /\ last.target
    /\ ~tree[last.node].selected
    /\ ~tree[scan_fs[last.node].parent].selected

\* ------------------------------------------------------------------------
\* Claims about the tree builder (checked under SpecScan)
\* ------------------------------------------------------------------------
RECURSIVE DepthOf(_)
\* Distance of disk entry e from root_dir.
DepthOf(e) == IF e = ROOT THEN 0 ELSE 1 + DepthOf(scan_fs[e].parent)

RECURSIVE TopOf(_)
\* The immediate child of root_dir that is e or above e.
TopOf(e) == IF scan_fs[e].parent = ROOT THEN e ELSE TopOf(scan_fs[e].parent)

MatchesExclude(e) ==
    \E i \in 1..Len(exclude_patterns) : fnmatch(scan_fs[e].name, exclude_patterns[i])

\* The entries the scan can reach that are under no excluded child of the root.
ExpectedKept ==
    {e \in DOMAIN scan_fs :
        Walkable(scan_fs, e) /\ (e # ROOT => ~MatchesExclude(TopOf(e)))}

RECURSIVE BytesSum(_)
BytesSum(S) ==
    IF S = {} THEN 0
    ELSE LET e == CHOOSE x \in S : TRUE IN scan_fs[e].bytes + BytesSum(S \ {e})

ExpectedEncodable ==
    {e \in ExpectedKept : scan_fs[e].type = "file" /\ scan_fs[e].encodable}

\* C10: an entry the scan reaches is left out of the built tree exactly when
\* the root's immediate child it is, or lies under, matches an exclude
\* pattern; a matching name deeper down is kept; what is left out counts
\* neither in the encodable totals nor in the initial selected totals.
C10_ExclusionAtRootOnly ==
    /\ tree_result # NoTree =>
          /\ DOMAIN tree_result = ExpectedKept
          /\ total_encodable_count = Cardinality(ExpectedEncodable)
          /\ total_encodable_size = BytesSum(ExpectedEncodable)
    /\ worker_pc \in {"return", "done"} =>
          /\ selected_count = Cardinality(ExpectedEncodable)
          /\ selected_size = BytesSum(ExpectedEncodable)
    /\ mode = "browse" => DOMAIN tree = ExpectedKept

\* C10 witness: the tree was built with a matching name kept at depth 2 while
\* a matching immediate child of the root was left out.
C10_Witness ==
    /\ mode = "browse"
    /\ \E e \in DOMAIN tree : DepthOf(e) >= 2 /\ MatchesExclude(e)
    /\ \E d \in DOMAIN scan_fs \ DOMAIN tree :
          DepthOf(d) = 1 /\ MatchesExclude(d) /\ scan_fs[d].encodable
    /\ selected_count > 0

\* ------------------------------------------------------------------------
\* Claims about the sort key
\* ------------------------------------------------------------------------
\* Case-insensitive name order, not strict.
NameLeq(a, b) == ~StrLess(Lower(tree[b].name), Lower(tree[a].name))

\* Two neighbouring children a, b of a directory stand in the claimed order.
InClaimedOrder(a, b) ==
    /\ tree[a].type = "file" => tree[b].type = "file"
    /\ tree[a].type = tree[b].type =>
          IF sort_by = "name" THEN NameLeq(a, b)
          ELSE \/ tree[a].size > tree[b].size
               \/ (tree[a].size = tree[b].size /\ NameLeq(a, b))

\* C11: after the sort key, under either criterion, in every directory of
\* the tree the directories precede the files; under 'name' each group is in
\* ascending case-insensitive name order, under 'size' in descending size
\* order with ties in ascending case-insensitive name order.
C11_SortOrder ==
    last.key = "tab" =>
        \A n \in DOMAIN tree :
            \A i \in 1..(Len(tree[n].children) - 1) :
                InClaimedOrder(tree[n].children[i], tree[n].children[i + 1])

\* The sort key has put a directory below the root in size order: its first
\* child is the larger file and the later one by name.
C11_Witness ==
    /\ last.key = "tab"
    /\ sort_by = "size"
    /\ \E n \in DOMAIN tree :
          /\ n # ROOT
          /\ Len(tree[n].children) >= 2
          /\ tree[tree[n].children[1]].type = "file"
          /\ tree[tree[n].children[1]].size > tree[tree[n].children[2]].size
          /\ ~NameLeq(tree[n].children[1], tree[n].children[2])

\* ------------------------------------------------------------------------
\* Claims about the main loop
\* ------------------------------------------------------------------------
\* C12: after an export key ('c' or 's') the application is in Browse mode
\* with the main loop waiting for the next key, whether or not the clipboard
\* or the output file could be written.
C12_ExportFailureNotFatal ==
    last.key \in {"c", "s"} => (mode = "browse" /\ main_pc = "inkey")

\* C13: the mode leaves Loading only for Browse and only when the worker has
\* finished all its writes; at that step the tree is taken over, the flat
\* list is built from it and the buffer is emptied; outside Loading the
\* worker writes nothing any more, the mode never returns to Loading, and
\* while the mode is Loading the main loop handles no key and writes neither
\* the tree nor the flat list.
C13_ScanHandoff ==
    /\ [](mode # "loading" =>
             /\ worker_pc = "done"
             /\ tree_result = Built.nodes
             /\ total_encodable_count = Built.count
             /\ total_encodable_size = Built.size)
    /\ [][/\ (mode = "loading" /\ mode' # "loading") =>
                /\ worker_pc = "done"
                /\ mode' = "browse"
                /\ tree' = tree_result
                /\ flat_list' = flat_list_of(tree_result)
                /\ last_drawn_lines' = <<>>
                /\ selected_count = total_encodable_count
                /\ selected_size = total_encodable_size
          /\ (mode = "loading" /\ mode' = "loading") =>
                UNCHANGED <<tree, flat_list, last>>
          /\ mode # "loading" =>
                /\ mode' # "loading"
                /\ UNCHANGED <<tree_result, total_encodable_count,
                               total_encodable_size, worker_pc>>]_vars

\* The handoff has just happened: the built tree, with entries below the
\* root, is the tree of the browser, flattened to its collapsed root, over
\* an empty buffer.
C13_Witness ==
    /\ mode = "browse"
    /\ main_pc = "inkey"
    /\ last = NoKey
    /\ last_drawn_lines = <<>>
    /\ tree = Built.nodes
    /\ tree[ROOT].children # <<>>
    /\ flat_list = <<ROOT>>
    /\ selected_count > 0

\* The tracker after the first j calls of the worker: set_total, then one
\* update per visited path.
TrackerAfter(j) ==
    IF j = 0 THEN [count |-> 0, total |-> 0, current_path |-> NoPath]
    ELSE IF j = 1
    THEN [count |-> 0, total |-> total_files(scan_fs), current_path |-> NoPath]
    ELSE [count |-> j - 1, total |-> total_files(scan_fs),
          current_path |-> VisitOrder[j - 1]]

\* C14: every triple get_state returned is the tracker's state after some
\* prefix of the worker's calls (count and current_path come from the same
\* update), and from one loading screen to the next the count of the
\* snapshot never decreases.
C14_SnapshotAtomic ==
    /\ [](\E j \in 0..(Len(VisitOrder) + 1) : snapshot = TrackerAfter(j))
    /\ [][mode' = "loading" => snapshot'.count >= snapshot.count]_vars

\* A snapshot was taken after an update, and the worker, having gone on
\* since, is in the middle of a later update: count is ahead of current_path.
C14_Witness ==
    /\ mode = "loading"
    /\ snapshot.count >= 1
    /\ snapshot.count < progress.count
    /\ lock = "worker"
    /\ progress.current_path # VisitOrder[progress.count]

\* C15: the mode goes from Browse to Preview only on a File that is
\* encodable and selected.
C15_PreviewOnlySelectedEncodable ==
    [][(mode = "browse" /\ mode' = "preview") =>
          /\ tree[current_node].type = "file"
          /\ is_encodable(scan_fs, current_node)
          /\ tree[current_node].selected]_vars

\* Every row of the screen.
AllRows == 0..(term_height - 1)

\* C16: the prompt is entered only by the quit key in Browse mode, never
\* from Loading; the same key in Preview closes the preview; a reply other
\* than 'y'/'Y' resumes Browse with tree, totals, cursor and sort criterion
\* unchanged and the buffer emptied, and the frame drawn next writes every
\* row; only 'y'/'Y' ends the loop.
C16_QuitConfirmation ==
    [][/\ (main_pc # "prompt" /\ main_pc' = "prompt") =>
             (mode = "browse" /\ mode' = "browse" /\ last'.key = "q")
       /\ (mode = "preview" /\ last'.key = "q") =>
             (mode' = "browse" /\ main_pc' = "frame")
       /\ mode = "loading" => main_pc' \notin {"prompt", "exited"}
       /\ main_pc = "prompt" =>
             IF last'.key \in {"y", "Y"}
             THEN main_pc' = "exited"
             ELSE /\ main_pc' = "frame"
                  /\ mode' = "browse"
                  /\ last_drawn_lines' = <<>>
                  /\ UNCHANGED <<tree, selected_count, selected_size,
                                 cursor_pos, sort_by, flat_list>>
       /\ (main_pc = "frame" /\ mode = "browse") =>
             /\ main_pc' = "inkey"
             /\ render_rows(last_drawn_lines', last_drawn_lines, term_height,
                            term_width) = AllRows
             /\ UNCHANGED <<tree, selected_count, selected_size, cursor_pos,
                            sort_by, flat_list, mode>>
       /\ main_pc' = "exited" =>
             (main_pc = "prompt" /\ last'.key \in {"y", "Y"})]_vars

\* The prompt was declined and Browse redrawn, with the cursor moved, a file
\* deselected and the size criterion active.
C16_Witness ==
    /\ main_pc = "inkey"
    /\ last.key = "n"
    /\ mode = "browse"
    /\ last_drawn_lines # <<>>
    /\ cursor_pos > 0
    /\ sort_by = "size"
    /\ selected_count < total_encodable_count

\* The rows of content the preview overlay draws.
ClaimedViewport == Max(term_height - 6, 10) - 4

\* C17: in Preview, preview_scroll is within
\* [0, max(0, lineCount - viewportHeight)].
C17_PreviewScrollBound ==
    mode = "preview" =>
        /\ 0 <= preview_scroll
        /\ preview_scroll <= Max(0, Len(preview_content) - ClaimedViewport)

\* The rows between header and footer.
ViewportHeight == term_height - 2

\* A step that draws a Browse frame.
BrowseFrameDrawn ==
    /\ mode' = "browse"
    /\ main_pc' = "inkey"
    /\ last_drawn_lines' # <<>>

\* C18: after every Browse frame the cursor is inside the window of
\* ViewportHeight rows starting at top_line; a frame leaves top_line alone
\* when the cursor is inside the window already and otherwise moves it just
\* far enough to bring the cursor to the first or the last row.
C18_Viewport ==
    /\ []((mode = "browse" /\ last_drawn_lines # <<>>) =>
             /\ top_line <= cursor_pos
             /\ cursor_pos <= top_line + ViewportHeight - 1)
    /\ [][BrowseFrameDrawn =>
             top_line' =
                IF cursor_pos' < top_line THEN cursor_pos'
                ELSE IF cursor_pos' > top_line + ViewportHeight - 1
                THEN cursor_pos' - ViewportHeight + 1
                ELSE top_line]_vars

\* The window has scrolled: the cursor went below it and is on its last row.
C18_Witness ==
    /\ mode = "browse"
    /\ main_pc = "inkey"
    /\ last.key = "down"
    /\ top_line > 0
    /\ cursor_pos = top_line + ViewportHeight - 1

\* ------------------------------------------------------------------------
\* Claims about the renderer
\* ------------------------------------------------------------------------
\* What row i of a frame shows: the line padded to the width, a row the
\* frame does not hold being blank.
ShownRow(lines, i) ==
    ljust(IF i < Len(lines) THEN lines[i + 1] ELSE EmptyLine, term_width)

\* A step that draws a frame.
FrameDrawn ==
    \/ (main_pc = "frame" /\ main_pc' \in {"alive", "inkey"})
    \/ (main_pc = "inkey" /\ main_pc' = "inkey")

\* C19: a frame writes a row that the frame before held only if what the
\* row shows differs from what it showed in the frame before.
C19_DiffRender ==
    [][FrameDrawn =>
          \A i \in render_rows(last_drawn_lines', last_drawn_lines,
                               term_height, term_width) :
              i < Len(last_drawn_lines) =>
                  ShownRow(last_drawn_lines', i) # ShownRow(last_drawn_lines, i)]_vars

\* ------------------------------------------------------------------------
\* Claims about the cursor
\* ------------------------------------------------------------------------
\* C20: in Browse mode the flat list is not empty, its first entry is the
\* root, and the cursor is an index of it.
C20_CursorBound ==
    mode = "browse" =>
        /\ flat_list # <<>>
        /\ flat_list[1] = ROOT
        /\ 0 <= cursor_pos
        /\ cursor_pos <= Len(flat_list) - 1

\* The down key was pressed on the last row of a list of three rows, and the
\* cursor stayed on it.
C20_Witness ==
    /\ mode = "browse"
    /\ last.key = "down"
    /\ Len(flat_list) >= 3
    /\ cursor_pos = Len(flat_list) - 1
    /\ last.node = flat_list[cursor_pos + 1]

\* ------------------------------------------------------------------------
\* Claims about the flat list, the node sizes and the first partition
\* ------------------------------------------------------------------------
RECURSIVE AncestorsExpanded(_)
\* Every proper ancestor of node n other than the root is expanded.
AncestorsExpanded(n) ==
    \/ n = ROOT
    \/ scan_fs[n].parent = ROOT
    \/ /\ tree[scan_fs[n].parent].expanded
       /\ AncestorsExpanded(scan_fs[n].parent)

\* Node n is a row of the flat list.
Listed(n) == \E i \in 1..Len(flat_list) : flat_list[i] = n

\* C21: in Browse mode, from the transition on, the root is in the flat
\* list and a node other than the root is in it exactly when every proper
\* ancestor of it other than the root is expanded: the root's own expanded
\* flag hides nothing, so the root's children are listed at the transition.
C21_RootAlwaysTraversed ==
    mode = "browse" =>
        /\ Listed(ROOT)
        /\ \A n \in DOMAIN tree \ {ROOT} : Listed(n) <=> AncestorsExpanded(n)

\* The tree has been published by the worker.
TreePublished == worker_pc \in {"select", "return", "done"}

\* C22: in the built tree a File node has its byte length as size if it is
\* encodable and 0 if it is not, a Directory node has the sum of its
\* children's sizes, and every node's size equals its encodable_size.
C22_NodeSize ==
    TreePublished =>
        \A n \in DOMAIN tree_result :
            /\ tree_result[n].type = "file" =>
                  tree_result[n].size =
                     IF is_encodable(scan_fs, n) THEN scan_fs[n].bytes ELSE 0
            /\ tree_result[n].type = "dir" =>
                  tree_result[n].size =
                     SumSeq([i \in 1..Len(tree_result[n].children) |->
                                tree_result[tree_result[n].children[i]].size])
            /\ tree_result[n].size = tree_result[n].encodable_size

\* C23: for every text that passes the marker check the first partition of
\* the split holds nothing but whitespace, so that dropping it drops no
\* record.
C23_FirstPartitionEmpty ==
    (pc \in {"loop", "returned"} /\ HasMarker(normalized_fdl(clipboard)))
    => Strip(parts[1]) = <<>>

====
